---- MODULE Spec2Model ----
(***************************************************************************)
(* A model of doopl/factory.py: the OplModel session (registration of      *)
(* inputs, guarded generation, solve, statistics caches, export, end), the *)
(* create_opl_model scope around it, and the MyDataSource adapter that     *)
(* fills the engine's tuple sets from Python values.                       *)
(*                                                                         *)
(* The OPL engine (doopl.opl: IloEnv, IloOplModel, tuple sets, CPLEX/CP)   *)
(* is a native binding that factory.py only calls.  Its behaviour is       *)
(* modelled by the Engine* operators and by nondeterministic choices in    *)
(* the actions.                                                            *)
(***************************************************************************)
EXTENDS Integers, Sequences, FiniteSets, TLC

VARIABLES
    scope,          \* where the caller is: "constructed", "block", "exitedNormal", "exitedError", "setupRaised"
    via,            \* how the block was entered: "none", "create_opl_model", "with"
    inputs,         \* OplModel._inputs   : None or Some(sequence of [name, value]) (an OrderedDict)
    datfiles,       \* OplModel._datfiles : None or Some(sequence of file names)
    cplex_stats,    \* OplModel._cplex_stats   : None or Some(snapshot)
    cplex_quality,  \* OplModel._cplex_quality : None or Some(snapshot)
    fieldDict,      \* OplModel._fieldDict : None or Some(set of <<schema, column types>>)
    envEnded,       \* engine: IloEnv.end() has been called
    usingCP,        \* engine: the model uses the constraint-programming backend
    generated,      \* engine: IloOplModel.isGenerated()
    dataSources,    \* engine: the data sources attached with addDataSource, in order
    genCalls,       \* engine: number of IloOplModel.generate() invocations
    tables,         \* engine: the tuple sets filled by the data source, name -> rows
    last,           \* the last operation: [op, arg, outcome, calls (the engine calls it made, in
                    \* order), printed (what __generate printed)]
    ret             \* the rows returned by the last get_table

vars == <<scope, via, inputs, datfiles, cplex_stats, cplex_quality, fieldDict,
          envEnded, usingCP, generated, dataSources, genCalls, tables, last, ret>>

(***************************************************************************)
(* Bounds of the model.                                                    *)
(***************************************************************************)
MaxRows == 2          \* rows per registered value
MaxDatFiles == 1      \* registered data files
MaxGenCalls == 2      \* engine generate() invocations (failed generations can be retried)
MaxStat == 1          \* range of the values an engine statistic takes
QualityEnumSize == 12 \* number of quality measures the engine enumerates

(***************************************************************************)
(* Program constants.                                                      *)
(***************************************************************************)
OPL_INTEGER == 1
OPL_FLOAT == 2
OPL_STRING == 3

(***************************************************************************)
(* Python values.  None / Some model an attribute that may hold None.      *)
(***************************************************************************)
None == <<>>
Some(x) == <<x>>
IsNone(o) == o = <<>>
Val(o) == o[1]

\* A Python scalar: kind k, with n (and one decimal digit d) for numbers and s for text.
PyInt(n) == [k |-> "int", n |-> n, d |-> 0, s |-> ""]
PyFloat(n, d) == [k |-> "float", n |-> n, d |-> d, s |-> ""]
PyString(s) == [k |-> "str", n |-> 0, d |-> 0, s |-> s]
PyBool(b) == [k |-> "bool", n |-> IF b THEN 1 ELSE 0, d |-> 0, s |-> ""]

DigitChar(i) ==
    CASE i = 0 -> "0" [] i = 1 -> "1" [] i = 2 -> "2" [] i = 3 -> "3" [] i = 4 -> "4"
      [] i = 5 -> "5" [] i = 6 -> "6" [] i = 7 -> "7" [] i = 8 -> "8" [] i = 9 -> "9"

RECURSIVE NatStr(_)
NatStr(n) == IF n < 10 THEN DigitChar(n) ELSE NatStr(n \div 10) \o DigitChar(n % 10)

\* str(v) of Python: the decimal rendering of a number, the text of a string, True/False.
PyStr(v) ==
    CASE v.k = "str" -> v.s
      [] v.k = "int" -> IF v.n < 0 THEN "-" \o NatStr(-v.n) ELSE NatStr(v.n)
      [] v.k = "float" -> (IF v.n < 0 THEN "-" \o NatStr(-v.n) ELSE NatStr(v.n)) \o "." \o NatStr(v.d)
      [] v.k = "bool" -> IF v.n = 1 THEN "True" ELSE "False"

(***************************************************************************)
(* The engine's declared tuple sets and their schemas (engine side).       *)
(***************************************************************************)
Names == {"Items", "Tags"}

\* IloTupleSchema of a declared set: _getColumnTypes() and hasKey().
EngineSchema(name) ==
    IF name = "Items"
    THEN [types |-> <<OPL_INTEGER, OPL_STRING, OPL_FLOAT>>, hasKey |-> FALSE]
    ELSE [types |-> <<OPL_STRING>>, hasKey |-> TRUE]

\* What a numeric column or cell of the engine holds for a Python number.
EngineNum(type, v) == IF type = OPL_INTEGER THEN PyInt(v.n) ELSE PyFloat(v.n, v.d)

\* IloTupleSet.commit on a keyed schema: a row whose key is already present is not added.
EngineCommitKeyed(rows, row) ==
    IF \E j \in DOMAIN rows : rows[j] = row THEN rows ELSE Append(rows, row)

(***************************************************************************)
(* Results of a Python computation: a value, or a raised exception.        *)
(***************************************************************************)
Ok(v) == [ok |-> TRUE, exc |-> "", v |-> v]
Raise(e) == [ok |-> FALSE, exc |-> e, v |-> <<>>]

Min(S) == CHOOSE x \in S : \A y \in S : x <= y

\* zip(*seqs): as many tuples as the shortest sequence has elements.
Zip(seqs) ==
    IF Len(seqs) = 0 THEN <<>>
    ELSE LET n == Min({Len(seqs[i]) : i \in DOMAIN seqs})
         IN  [j \in 1..n |-> [i \in DOMAIN seqs |-> seqs[i][j]]]

\* float(v)
PyFloatOf(v) ==
    CASE v.k = "float" -> Ok(v)
      [] v.k \in {"int", "bool"} -> Ok(PyFloat(v.n, 0))
      [] OTHER -> Raise("ValueError")

(***************************************************************************)
(* MyDataSource.read                                                       *)
(***************************************************************************)
\* OplModel._getFields: the column types of a schema, cached in _fieldDict.
GetFields(fd, name) ==
    IF \E e \in fd : e[1] = name
    THEN [fields |-> (CHOOSE e \in fd : e[1] = name)[2], fd |-> fd]
    ELSE [fields |-> EngineSchema(name).types,
          fd |-> fd \cup {<<name, EngineSchema(name).types>>}]

\* addCell: the value set into cell `index` of the row being committed.
AddCell(f, v) ==
    IF f = OPL_STRING
    THEN IF v.k = "str" THEN Ok(PyString(v.s))
         ELSE IF v.k \in {"int", "float"} THEN Ok(PyString(PyStr(v)))
         ELSE Ok(PyString(PyStr(v)))
    ELSE LET SetNumValue(x) == IF x.ok THEN Ok(EngineNum(f, x.v)) ELSE x
         IN  SetNumValue(PyFloatOf(v))

\* `type(v)` inside fillTupleSet: the loop `for i, type in enumerate(fields)` binds
\* `type` to the column kind (an integer), so the call raises
\* TypeError: 'int' object is not callable.
TypeInFill(colType, v) == Raise("TypeError")

\* The coercion pass of fillTupleSet over one value of a string column.
FillString(colType, v) ==
    IF v.k = "str" THEN Ok(PyString(v.s))
    ELSE LET Branch(t) ==
                 IF ~t.ok THEN t
                 ELSE IF t.v \in {"int", "float"} THEN Ok(PyString(PyStr(v)))
                 ELSE Ok(PyString(PyStr(v)))
         IN  Branch(TypeInFill(colType, v))

\* One column of fillTupleSet: the batch handed to set*ColumnValues.
FillColumn(colType, col) ==
    IF colType \in {OPL_INTEGER, OPL_FLOAT}
    THEN Ok([j \in DOMAIN col |-> EngineNum(colType, col[j])])
    ELSE LET Batch(c) ==
                 IF \E j \in DOMAIN c : ~c[j].ok
                 THEN Raise(c[Min({j \in DOMAIN c : ~c[j].ok})].exc)
                 ELSE Ok([j \in DOMAIN c |-> c[j].v])
         IN  Batch([j \in DOMAIN col |-> FillString(colType, col[j])])

\* fillTupleSet: the engine columns of the set, or the first exception raised.
FillTupleSet(fields, bycolumn) ==
    IF Len(bycolumn) = 0 THEN Raise("IndexError")      \* size = len(bycolumn[0])
    ELSE LET Columns(size, c) ==
                 IF \E i \in DOMAIN c : ~c[i].ok
                 THEN Raise(c[Min({i \in DOMAIN c : ~c[i].ok})].exc)
                 ELSE Ok([i \in DOMAIN c |-> SubSeq(c[i].v, 1, size)])
         IN  Columns(Len(bycolumn[1]),
                     [i \in DOMAIN fields |->
                         IF i > Len(bycolumn) THEN Raise("IndexError")   \* col = bycolumn[i]
                         ELSE FillColumn(fields[i], bycolumn[i])])

\* The cells of one row after addCell on each of its values (cells keep what
\* the previous row left where this row is shorter).
RECURSIVE FillCells(_, _, _, _)
FillCells(fields, cells, row, i) ==
    IF i > Len(row) THEN Ok(cells)
    ELSE IF i > Len(fields) THEN Raise("IndexError")    \* fields[i]
    ELSE LET Put(c) ==
                 IF ~c.ok THEN c
                 ELSE FillCells(fields, [cells EXCEPT ![i] = c.v], row, i + 1)
         IN  Put(AddCell(fields[i], row[i]))

\* The row-by-row commit: the committed rows, or the first exception raised.
RECURSIVE CommitRows(_, _, _, _, _, _)
CommitRows(fields, hasKey, cells, value, i, rows) ==
    IF i > Len(value) THEN Ok(rows)
    ELSE LET Commit(c) ==
                 IF ~c.ok THEN c
                 ELSE CommitRows(fields, hasKey, c.v, value, i + 1,
                                 IF hasKey THEN EngineCommitKeyed(rows, c.v)
                                 ELSE Append(rows, c.v))
         IN  Commit(FillCells(fields, cells, value[i], 1))

\* A fresh IloTupleCellArray of the schema's size.
EmptyCells(fields) ==
    [i \in DOMAIN fields |-> IF fields[i] = OPL_STRING THEN PyString("") ELSE EngineNum(fields[i], PyInt(0))]

\* The body of read's loop for one (name, value): the engine columns of the set.
ReadOne(fields, hasKey, value) ==
    IF value.shape = "list" THEN FillTupleSet(fields, Zip(value.rows))
    ELSE IF value.shape = "frame" THEN FillTupleSet(fields, value.cols)
    ELSE LET FillColumns(r) ==
                 IF ~r.ok THEN r
                 ELSE Ok([i \in DOMAIN fields |-> [j \in DOMAIN r.v |-> r.v[j][i]]])
         IN  FillColumns(CommitRows(fields, hasKey, EmptyCells(fields), value.rows, 1, <<>>))

\* read: every registered input in order; stops at the first exception.
\* Yields the field cache and the filled sets.
RECURSIVE Read(_, _, _, _)
Read(ins, i, fd, tb) ==
    IF i > Len(ins) THEN [ok |-> TRUE, exc |-> "", fd |-> fd, tb |-> tb]
    ELSE LET Filled(g, r) ==
                 IF ~r.ok THEN [ok |-> FALSE, exc |-> r.exc, fd |-> g.fd, tb |-> tb]
                 ELSE Read(ins, i + 1, g.fd, [tb EXCEPT ![ins[i].name] = Some(r.v)])
             Prepared(g) ==
                 Filled(g, ReadOne(g.fields, EngineSchema(ins[i].name).hasKey, ins[i].value))
         IN  Prepared(GetFields(fd, ins[i].name))

\* __getTupleSet(set, as_pandas=False): the set's columns zipped into row tuples.
GetTupleSet(fd, name, cols) ==
    LET Rep(g) == [rep |-> Zip([i \in DOMAIN g.fields |-> cols[i]]), fd |-> g.fd]
    IN  Rep(GetFields(fd, name))

(***************************************************************************)
(* The values a caller registers.                                          *)
(***************************************************************************)
ListValue(rows) == [shape |-> "list", rows |-> rows, cols |-> <<>>]
IterValue(rows) == [shape |-> "iter", rows |-> rows, cols |-> <<>>]
\* A data frame with one column per schema column, holding the given rows.
FrameValue(name, rows) ==
    [shape |-> "frame", rows |-> <<>>,
     cols |-> [i \in DOMAIN EngineSchema(name).types |-> [j \in DOMAIN rows |-> rows[j][i]]]]

RowPool(name) ==
    IF name = "Items"
    THEN {<<PyInt(1), PyString("a"), PyFloat(10, 5)>>,
          <<PyInt(2), PyString("b"), PyFloat(20, 0)>>,
          <<PyInt(2), PyInt(5), PyFloat(20, 0)>>}
    ELSE {<<PyString("a")>>, <<PyInt(5)>>, <<PyFloat(3, 0)>>, <<PyBool(TRUE)>>}

SeqsUpTo(S, n) == UNION {[1..k -> S] : k \in 0..n}

\* Every value of up to MaxRows rows, in each of the three shapes read() tells apart.
FillValues(name) ==
    UNION {{ListValue(r), IterValue(r), FrameValue(name, r)} : r \in SeqsUpTo(RowPool(name), MaxRows)}

\* The values registered in the session specification: an empty list and a
\* one-row list for Items, a one-row iterable for Tags.
SessionValues(name) ==
    IF name = "Items"
    THEN {ListValue(<<>>),
          ListValue(<<(<<PyInt(1), PyString("a"), PyFloat(10, 5)>>)>>)}
    ELSE {IterValue(<<(<<PyInt(5)>>)>>)}

DatNames == {"a.dat"}
ExportNames == {"m.sav", "m.lp", "m.mps", "m.cpo", "m.txt", "lp"}

EmptyTables == [n \in Names |-> None]

Called(calls, c) == \E i \in DOMAIN calls : calls[i] = c
Count(seq, x) == Cardinality({i \in DOMAIN seq : seq[i] = x})

(***************************************************************************)
(* The session: Init is the state after OplModel.__init__.                 *)
(***************************************************************************)
Fresh ==
    /\ datfiles = Some(<<>>)
    /\ cplex_stats = None
    /\ cplex_quality = None
    /\ fieldDict = Some({})
    /\ envEnded = FALSE
    /\ generated = FALSE
    /\ dataSources = <<>>
    /\ genCalls = 0
    /\ tables = EmptyTables
    /\ last = [op |-> "init", arg |-> <<>>, outcome |-> "None", calls |-> <<>>, printed |-> <<>>]
    /\ ret = <<>>

Init ==
    /\ scope = "constructed"
    /\ via = "none"
    /\ inputs = Some(<<>>)
    /\ usingCP \in BOOLEAN
    /\ Fresh

DoneP(op, arg, outcome, calls, printed) ==
    last' = [op |-> op, arg |-> arg, outcome |-> outcome, calls |-> calls, printed |-> printed]

Done(op, arg, outcome, calls) == DoneP(op, arg, outcome, calls, <<>>)

\* The caller operates on the session inside its block.
InUse == scope = "block"

\* The choices an operation's engine calls leave open: whether generate() is
\* accepted (only asked of a live engine that has not generated), and what
\* isGenerated() yields on a released environment.
EngineOks == IF envEnded \/ generated THEN {TRUE} ELSE BOOLEAN
DeadGens == IF envEnded THEN {"True", "TypeError", "EngineError"} ELSE {"True"}
DeadBools == IF envEnded THEN BOOLEAN ELSE {FALSE}

\* A registration that appends without looking for the name.
DictSetAppend(d, name, value) == Append(d, [name |-> name, value |-> value])

\* OrderedDict.__setitem__: a present key keeps its place and takes the new value.
DictSet(d, name, value) ==
    IF \E i \in DOMAIN d : d[i].name = name
    THEN [i \in DOMAIN d |-> IF d[i].name = name THEN [name |-> name, value |-> value] ELSE d[i]]
    ELSE Append(d, [name |-> name, value |-> value])

\* set_input(name, value): value is None (a data file) or Some(v).
SetInputEffect(ins, dats, name, value) ==
    IF ~IsNone(value)
    THEN [inputs |-> Some(DictSet(Val(ins), name, Val(value))), datfiles |-> dats]
    ELSE [inputs |-> ins, datfiles |-> Some(Append(Val(dats), name))]

SetInput(name, value) ==
    /\ InUse
    /\ IF envEnded
       THEN \* _inputs and _datfiles are None
            /\ Done("set_input", <<name>> \o value,
                    IF ~IsNone(value) THEN "TypeError" ELSE "AttributeError", <<>>)
            /\ UNCHANGED <<inputs, datfiles>>
       ELSE /\ IsNone(value) => Len(Val(datfiles)) < MaxDatFiles
            /\ \E e \in {SetInputEffect(inputs, datfiles, name, value)} :
                   /\ inputs' = e.inputs
                   /\ datfiles' = e.datfiles
            /\ Done("set_input", <<name>> \o value, "None", <<>>)
    /\ UNCHANGED <<scope, via, cplex_stats, cplex_quality, fieldDict, envEnded, usingCP,
                   generated, dataSources, genCalls, tables, ret>>

(***************************************************************************)
(* Generation.                                                             *)
(***************************************************************************)
\* IloOplModel.generate(): the engine reads its data sources (the Python source
\* through MyDataSource.read) and builds the model; it raises when read raises
\* or when the engine rejects the model or its data (engineOk = FALSE).
EngineGenerate(ins, ds, fd, engineOk) ==
    LET Result(r) ==
            [ok |-> r.ok /\ engineOk, fd |-> r.fd, tb |-> r.tb,
             exc |-> IF ~r.ok THEN r.exc ELSE IF ~engineOk THEN "IloException" ELSE ""]
    IN  Result(IF Called(ds, "py") THEN Read(ins, 1, fd, EmptyTables)
               ELSE [ok |-> TRUE, exc |-> "", fd |-> fd, tb |-> EmptyTables])

\* A guard that regenerates whatever the engine answers.
NeedsGenerateAlways(isGen) == TRUE

\* `if self._opl.isGenerated() is False`
NeedsGenerate(isGen) == isGen = FALSE

\* The data sources after __generate has attached the aggregate Python source
\* (when there are inputs) and one source per data file.
AttachSources(ins, dats, ds) ==
    ds \o (IF Len(ins) # 0 THEN <<"py">> ELSE <<>>) \o dats

\* OplModel.__generate on a live engine: its boolean result, the engine and
\* cache state it leaves, the engine calls it made and what `print(e)` printed.
Generate(ins, dats, fd, isGen, ds, n, tb, engineOk) ==
    IF NeedsGenerate(isGen)
    THEN LET Outcome(ds2, g) ==
                 [result |-> g.ok, gen |-> g.ok, ds |-> ds2, n |-> n + 1,
                  fd |-> Some(g.fd), tb |-> IF g.ok THEN g.tb ELSE tb,
                  calls |-> <<"isGenerated", "setSkipWarnNeverUsedElements">>
                            \o [i \in 1..(Len(ds2) - Len(ds)) |-> "addDataSource"]
                            \o <<"generate">>,
                  printed |-> IF g.ok THEN <<>> ELSE <<g.exc>>]
             Attached(ds2) == Outcome(ds2, EngineGenerate(Val(ins), ds2, Val(fd), engineOk))
         IN  Attached(AttachSources(Val(ins), Val(dats), ds))
    ELSE [result |-> TRUE, gen |-> isGen, ds |-> ds, n |-> n, fd |-> fd, tb |-> tb,
          calls |-> <<"isGenerated">>, printed |-> <<>>]

\* __generate in the current state.  After end() the engine call isGenerated()
\* is made on a released environment: it comes back true (deadGen = "True"),
\* raises ("EngineError"), or comes back false and len(self._inputs) raises on
\* None ("TypeError"); nothing is attached.
GenStep(engineOk, deadGen) ==
    IF envEnded
    THEN [result |-> deadGen = "True", gen |-> generated, ds |-> dataSources, n |-> genCalls,
          fd |-> fieldDict, tb |-> tables, calls |-> <<"isGenerated">>,
          printed |-> IF deadGen = "True" THEN <<>> ELSE <<deadGen>>]
    ELSE Generate(inputs, datfiles, fieldDict, generated, dataSources, genCalls, tables, engineOk)

ApplyGen(g) ==
    /\ generated' = g.gen
    /\ dataSources' = g.ds
    /\ genCalls' = g.n
    /\ fieldDict' = g.fd
    /\ tables' = g.tb

CanGenerate == envEnded \/ generated \/ genCalls < MaxGenCalls

\* isUsingCP(): the model's backend; any value on a released environment.
IsCP(cpDead) == IF envEnded THEN cpDead ELSE usingCP

(***************************************************************************)
(* run                                                                     *)
(***************************************************************************)
\* A run() that post-processes whatever solve returned.
RunBodyAlwaysPostProcess(g, solved) ==
    IF g.result
    THEN [outcome |-> IF solved = FALSE THEN "False" ELSE "True",
          calls |-> g.calls \o <<"isUsingCP", "solve", "postProcess", "hasProfiler">>]
    ELSE [outcome |-> "ValueError", calls |-> g.calls]

\* The body of run() after __generate returned g and (if reached) solve
\* returned `solved`: the outcome and the engine calls made.
RunBody(g, solved) ==
    IF g.result
    THEN IF solved = FALSE
         THEN [outcome |-> "False", calls |-> g.calls \o <<"isUsingCP", "solve">>]
         ELSE [outcome |-> "True",
               calls |-> g.calls \o <<"isUsingCP", "solve", "postProcess", "hasProfiler">>]
    ELSE [outcome |-> "ValueError", calls |-> g.calls]

Run ==
    /\ InUse
    /\ CanGenerate
    /\ \E engineOk \in EngineOks, deadGen \in DeadGens, solved \in BOOLEAN, raises \in DeadBools :
          \E g \in {GenStep(engineOk, deadGen)} : \E b \in {RunBody(g, solved)} :
              /\ ApplyGen(g)
              /\ IF envEnded /\ raises /\ g.result
                 THEN \* the last engine call on the released environment raises
                      DoneP("run", <<>>, "EngineError", b.calls, g.printed)
                 ELSE DoneP("run", <<>>, b.outcome, b.calls, g.printed)
    /\ UNCHANGED <<scope, via, inputs, datfiles, cplex_stats, cplex_quality, envEnded,
                   usingCP, ret>>

(***************************************************************************)
(* run_seed: generates with IloOplModel.generate() directly.  hasMain is   *)
(* what the engine answers for the model.                                  *)
(***************************************************************************)
RunSeed ==
    /\ InUse
    /\ CanGenerate
    /\ \E engineOk \in EngineOks, hasMain \in BOOLEAN,
          deadOutcome \in (IF envEnded THEN {"ValueError", "EngineError", "None"} ELSE {"None"}) :
          IF envEnded
          THEN /\ Done("run_seed", <<>>, deadOutcome, <<"hasMain">>)
               /\ UNCHANGED <<generated, genCalls, fieldDict, tables>>
          ELSE IF hasMain
          THEN /\ Done("run_seed", <<>>, "ValueError", <<"hasMain">>)
               /\ UNCHANGED <<generated, genCalls, fieldDict, tables>>
          ELSE IF generated
          THEN /\ Done("run_seed", <<>>, "None", <<"hasMain", "isGenerated", "runSeed">>)
               /\ UNCHANGED <<generated, genCalls, fieldDict, tables>>
          ELSE \E g \in {EngineGenerate(Val(inputs), dataSources, Val(fieldDict), engineOk)} :
                   /\ generated' = g.ok
                   /\ genCalls' = genCalls + 1
                   /\ fieldDict' = Some(g.fd)
                   /\ tables' = IF g.ok THEN g.tb ELSE tables
                   /\ IF g.ok
                      THEN Done("run_seed", <<>>, "None",
                                <<"hasMain", "isGenerated", "generate", "runSeed">>)
                      ELSE Done("run_seed", <<>>, "EngineError",
                                <<"hasMain", "isGenerated", "generate">>)
    /\ UNCHANGED <<scope, via, inputs, datfiles, cplex_stats, cplex_quality, envEnded,
                   usingCP, dataSources, ret>>

(***************************************************************************)
(* print_relaxation, print_conflict, export_model, compile                 *)
(***************************************************************************)
PrintRelaxation ==
    /\ InUse
    /\ CanGenerate
    /\ \E engineOk \in EngineOks, deadGen \in DeadGens, cpDead \in DeadBools :
          \E g \in {GenStep(engineOk, deadGen)} :
              /\ ApplyGen(g)
              /\ IF g.result
                 THEN IF IsCP(cpDead)
                      THEN DoneP("print_relaxation", <<>>, "ValueError", g.calls \o <<"isUsingCP">>, g.printed)
                      ELSE DoneP("print_relaxation", <<>>, "count",
                                g.calls \o <<"isUsingCP", "printRelaxation">>, g.printed)
                 ELSE DoneP("print_relaxation", <<>>, "ValueError", g.calls, g.printed)
    /\ UNCHANGED <<scope, via, inputs, datfiles, cplex_stats, cplex_quality, envEnded,
                   usingCP, ret>>

PrintConflict ==
    /\ InUse
    /\ CanGenerate
    /\ \E engineOk \in EngineOks, deadGen \in DeadGens :
          \E g \in {GenStep(engineOk, deadGen)} :
              /\ ApplyGen(g)
              /\ IF g.result
                 THEN DoneP("print_conflict", <<>>, "count", g.calls \o <<"printConflict">>, g.printed)
                 ELSE DoneP("print_conflict", <<>>, "ValueError", g.calls, g.printed)
    /\ UNCHANGED <<scope, via, inputs, datfiles, cplex_stats, cplex_quality, envEnded,
                   usingCP, ret>>

\* name[-3:]
Extension(name) == SubSeq(name, IF Len(name) > 3 THEN Len(name) - 2 ELSE 1, Len(name))

ExportExtensions == {"sav", ".lp", "cpo", "mps"}

\* `raise("...")`: raising a str is itself an error, TypeError: exceptions must
\* derive from BaseException.
RaiseStr == "TypeError"

ExportModel(name) ==
    /\ InUse
    /\ IF Extension(name) \notin ExportExtensions
       THEN /\ Done("export_model", <<name>>, RaiseStr, <<>>)
            /\ UNCHANGED <<generated, dataSources, genCalls, fieldDict, tables>>
       ELSE /\ CanGenerate
            /\ \E engineOk \in EngineOks, deadGen \in DeadGens, cpDead \in DeadBools :
                  \E g \in {GenStep(engineOk, deadGen)} :
                      /\ ApplyGen(g)
                      /\ IF g.result
                         THEN IF IsCP(cpDead)
                              THEN DoneP("export_model", <<name>>, "None",
                                        g.calls \o <<"isUsingCP", "getCP.exportModel">>, g.printed)
                              ELSE DoneP("export_model", <<name>>, "None",
                                        g.calls \o <<"isUsingCP", "getCplex.exportModel">>, g.printed)
                         ELSE DoneP("export_model", <<name>>, RaiseStr, g.calls, g.printed)
    /\ UNCHANGED <<scope, via, inputs, datfiles, cplex_stats, cplex_quality, envEnded,
                   usingCP, ret>>

Compile ==
    /\ InUse
    /\ CanGenerate
    /\ \E engineOk \in EngineOks, deadGen \in DeadGens, raises \in DeadBools :
          \E g \in {GenStep(engineOk, deadGen)} :
              /\ ApplyGen(g)
              /\ IF envEnded /\ raises
                 THEN DoneP("compile", <<>>, "EngineError", g.calls \o <<"compile">>, g.printed)
                 ELSE DoneP("compile", <<>>, "None", g.calls \o <<"compile">>, g.printed)
    /\ UNCHANGED <<scope, via, inputs, datfiles, cplex_stats, cplex_quality, envEnded,
                   usingCP, ret>>

(***************************************************************************)
(* cplex_stats, cplex_quality                                              *)
(***************************************************************************)
\* The statistics the engine reports when they stand at `stat` (Niterations
\* stands for the thirty getters read in order).  What the engine reports
\* changes as it works, so each read of it draws stat from 0..MaxStat.
EngineStats(stat) == [Niterations |-> stat]

\* _getQuality(i): a value, or infinity.
EngineQuality(i, stat) == [inf |-> i % 3 = 2, x |-> i + stat]

\* The dict _get_cplex_quality builds: every measure but 10 and 11 whose value
\* is not infinity, in index order, as <<name, value>> pairs.
QualityDict(size, stat) ==
    LET keep(i) == i # 10 /\ i # 11 /\ ~EngineQuality(i, stat).inf
        all == [j \in 1..size |-> <<j - 1, EngineQuality(j - 1, stat).x>>]
    IN  SelectSeq(all, LAMBDA e : keep(e[1]))

\* An accessor that never looks at its cache.
CacheHitNever(cache) == FALSE

\* `if self._cplex_stats is not None: return self._cplex_stats`
CacheHit(cache) == ~IsNone(cache)

\* _get_cplex_stats / _get_cplex_quality given the cache, the backend, whether
\* the engine getters raise and the snapshot they would deliver.
ReadCached(cache, cp, raises, snapshot, getter) ==
    IF CacheHit(cache)
    THEN [outcome |-> "dict", cache |-> cache, value |-> cache, calls |-> <<>>]
    ELSE IF cp
    THEN [outcome |-> "ValueError", cache |-> cache, value |-> None, calls |-> <<"isUsingCP">>]
    ELSE IF raises
    THEN [outcome |-> "EngineError", cache |-> cache, value |-> None,
          calls |-> <<"isUsingCP", "getCplex", getter>>]
    ELSE [outcome |-> "dict", cache |-> Some(snapshot), value |-> Some(snapshot),
          calls |-> <<"isUsingCP", "getCplex", getter>>]

CplexStats ==
    /\ InUse
    /\ \E raises \in BOOLEAN, cpDead \in DeadBools, stat \in 0..MaxStat :
          \E r \in {ReadCached(cplex_stats, IsCP(cpDead), raises, EngineStats(stat),
                              "getNiterations")} :
              /\ cplex_stats' = r.cache
              /\ Done("cplex_stats", r.value, r.outcome, r.calls)
    /\ UNCHANGED <<scope, via, inputs, datfiles, cplex_quality, fieldDict, envEnded, usingCP,
                   generated, dataSources, genCalls, tables, ret>>

CplexQuality ==
    /\ InUse
    /\ \E raises \in BOOLEAN, cpDead \in DeadBools, stat \in 0..MaxStat :
          \E r \in {ReadCached(cplex_quality, IsCP(cpDead), raises,
                              QualityDict(QualityEnumSize, stat), "getQuality")} :
              /\ cplex_quality' = r.cache
              /\ Done("cplex_quality", r.value, r.outcome, r.calls)
    /\ UNCHANGED <<scope, via, inputs, datfiles, cplex_stats, fieldDict, envEnded, usingCP,
                   generated, dataSources, genCalls, tables, ret>>

(***************************************************************************)
(* get_table                                                               *)
(***************************************************************************)
GetTable(name, as_pandas) ==
    /\ InUse
    /\ IF envEnded
       THEN \* getElement on the released environment raises (reported as
            \* ValueError) or yields something, and then _fieldDict.get fails on None
            /\ \E deadOutcome \in {"ValueError", "AttributeError"} :
                  Done("get_table", <<name>>, deadOutcome, <<"getElement">>)
            /\ UNCHANGED <<fieldDict, ret>>
       ELSE IF IsNone(tables[name])
       THEN \* no such element in the engine's model
            /\ Done("get_table", <<name>>, "ValueError", <<"getElement">>)
            /\ UNCHANGED <<fieldDict, ret>>
       ELSE \E t \in {GetTupleSet(Val(fieldDict), name, Val(tables[name]))} :
                /\ fieldDict' = Some(t.fd)
                /\ ret' = t.rep
                /\ Done("get_table", <<name>>, IF as_pandas THEN "frame" ELSE "rows",
                        <<"getElement", "getSchema", "getColumnValues">>)
    /\ UNCHANGED <<scope, via, inputs, datfiles, cplex_stats, cplex_quality, envEnded, usingCP,
                   generated, dataSources, genCalls, tables>>

(***************************************************************************)
(* end, and the scopes that call it                                        *)
(***************************************************************************)
\* The assignments of OplModel.end, then self._env.end().
EndEffect ==
    /\ inputs' = None
    /\ datfiles' = None
    /\ cplex_stats' = None
    /\ cplex_quality' = None
    /\ fieldDict' = None
    /\ envEnded' = TRUE

\* env.end() on an already released environment raises or returns.
EndOutcome(raises) == IF envEnded /\ raises THEN "EngineError" ELSE "None"

End ==
    /\ InUse
    /\ EndEffect
    /\ \E raises \in DeadBools : Done("end", <<>>, EndOutcome(raises), <<"env.end">>)
    /\ UNCHANGED <<scope, via, usingCP, generated, dataSources, genCalls, tables, ret>>

\* create_opl_model from `if data is not None` to the yield: data is None, a
\* file name, a list of file names, or anything else.
CreateData(data) ==
    /\ scope = "constructed"
    /\ via' = "create_opl_model"
    /\ IF data.kind = "other"
       THEN /\ scope' = "setupRaised"
            /\ Done("create_opl_model", <<>>, "ValueError", <<>>)
            /\ UNCHANGED datfiles
       ELSE /\ scope' = "block"
            /\ datfiles' = Some(Val(datfiles) \o data.files)
            /\ Done("create_opl_model", <<>>, "None", <<>>)
    /\ UNCHANGED <<inputs, cplex_stats, cplex_quality, fieldDict, envEnded, usingCP,
                   generated, dataSources, genCalls, tables, ret>>

DataArgs ==
    {[kind |-> "none", files |-> <<>>], [kind |-> "other", files |-> <<>>]}
    \cup {[kind |-> "str", files |-> <<f>>] : f \in DatNames}
    \cup {[kind |-> "list", files |-> fs] : fs \in SeqsUpTo(DatNames, MaxDatFiles)}

\* `with OplModel(...) as opl:` -- __enter__
Enter ==
    /\ scope = "constructed"
    /\ scope' = "block"
    /\ via' = "with"
    /\ Done("__enter__", <<>>, "None", <<>>)
    /\ UNCHANGED <<inputs, datfiles, cplex_stats, cplex_quality, fieldDict, envEnded, usingCP,
                   generated, dataSources, genCalls, tables, ret>>

\* A scope without try/finally: end() is reached only when the block returns.
ScopeExitLeaks(error) ==
    /\ scope = "block"
    /\ scope' = IF error THEN "exitedError" ELSE "exitedNormal"
    /\ IF error
       THEN /\ Done("raise", <<>>, "Exception", <<>>)
            /\ UNCHANGED <<inputs, datfiles, cplex_stats, cplex_quality, fieldDict, envEnded>>
       ELSE /\ EndEffect
            /\ Done(IF via = "with" THEN "__exit__" ELSE "finally", <<>>, "None", <<"env.end">>)
    /\ UNCHANGED <<via, usingCP, generated, dataSources, genCalls, tables, ret>>

\* Leaving the block, normally or with an exception propagating: the finally
\* clause of create_opl_model, or __exit__, calls end().
ScopeExit(error) ==
    /\ scope = "block"
    /\ scope' = IF error THEN "exitedError" ELSE "exitedNormal"
    /\ EndEffect
    /\ \E raises \in DeadBools :
          Done(IF via = "with" THEN "__exit__" ELSE "finally", <<>>, EndOutcome(raises), <<"env.end">>)
    /\ UNCHANGED <<via, usingCP, generated, dataSources, genCalls, tables, ret>>

\* The session's lifecycle: acquisition, registration, every operation that
\* generates, end.
Next ==
    \/ \E data \in DataArgs : CreateData(data)
    \/ Enter
    \/ \E name \in Names : \E value \in SessionValues(name) : SetInput(name, Some(value))
    \/ \E name \in DatNames : SetInput(name, None)
    \/ Run
    \/ RunSeed
    \/ PrintRelaxation
    \/ PrintConflict
    \/ \E name \in ExportNames : ExportModel(name)
    \/ Compile
    \/ End
    \/ \E error \in BOOLEAN : ScopeExit(error)

Spec == Init /\ [][Next]_vars

\* The session's read accessors between registration, run and end.
NextRead ==
    \/ Enter
    \/ \E name \in Names : \E value \in SessionValues(name) : SetInput(name, Some(value))
    \/ Run
    \/ CplexStats
    \/ CplexQuality
    \/ \E name \in Names, as_pandas \in BOOLEAN : GetTable(name, as_pandas)
    \/ End
    \/ \E error \in BOOLEAN : ScopeExit(error)

SpecRead == Init /\ [][NextRead]_vars

(***************************************************************************)
(* The data source alone: a session holding one registered value drawn     *)
(* from FillValues, which is generated and read back.                      *)
(***************************************************************************)
InitFill ==
    /\ scope = "block"
    /\ via = "with"
    /\ \E name \in Names : \E value \in FillValues(name) :
          inputs = Some(<<[name |-> name, value |-> value]>>)
    /\ usingCP = FALSE
    /\ Fresh

NextFill ==
    \/ Run
    \/ Compile
    \/ \E name \in Names, as_pandas \in BOOLEAN : GetTable(name, as_pandas)

SpecFill == InitFill /\ [][NextFill]_vars

(***************************************************************************)
(* Properties.                                                             *)
(***************************************************************************)

\* C1: run() on a live session whose generation succeeds invokes the engine's
\* generate step and attaches the registered inputs and data files exactly
\* once, when the engine has not generated yet (one aggregate source if there
\* are inputs, then one source per data file); when the engine has generated
\* already, a further run() invokes no generate and attaches nothing.
C1_GenerateOnce ==
    [][(last'.op = "run" /\ last'.outcome \in {"True", "False"} /\ ~envEnded) =>
          IF generated
          THEN genCalls' = genCalls /\ dataSources' = dataSources /\ generated'
          ELSE /\ genCalls' = genCalls + 1
               /\ generated'
               /\ dataSources' = dataSources
                                   \o (IF Len(Val(inputs)) # 0 THEN <<"py">> ELSE <<>>)
                                   \o Val(datfiles)]_vars

\* A second successful run(): inputs and a data file were attached by the one
\* generation, and this run() went from isGenerated() straight to solve.
C1_Witness ==
    /\ last.op = "run"
    /\ last.outcome = "True"
    /\ ~envEnded
    /\ genCalls = 1
    /\ dataSources = <<"py", "a.dat">>
    /\ ~Called(last.calls, "generate")

\* C2: run() on a live session ends in one of three ways: a usage error exactly
\* when generation failed, and then solve was not called; False with solve
\* called once and no post-processing; True with solve and post-processing
\* each called exactly once.
C2_RunOutcomes ==
    (last.op = "run" /\ ~envEnded) =>
        /\ last.outcome \in {"ValueError", "False", "True"}
        /\ (last.outcome = "ValueError") <=> ~generated
        /\ last.outcome = "ValueError" =>
              Count(last.calls, "solve") = 0 /\ Count(last.calls, "postProcess") = 0
        /\ last.outcome = "False" =>
              Count(last.calls, "solve") = 1 /\ Count(last.calls, "postProcess") = 0
        /\ last.outcome = "True" =>
              Count(last.calls, "solve") = 1 /\ Count(last.calls, "postProcess") = 1

\* A run() whose generation succeeded and whose solve reported failure.
C2_Witness ==
    /\ last.op = "run"
    /\ last.outcome = "False"
    /\ ~envEnded
    /\ generated
    /\ Called(last.calls, "generate")

\* C3: whenever the engine's generate step is invoked, every registered
\* programmatic input and data file has been attached as a data source, and a
\* generation exception is not propagated to the caller.
C3_GuardedGenerate ==
    [][genCalls' > genCalls =>
          /\ Len(Val(inputs)) # 0 => Called(dataSources', "py")
          /\ \A i \in DOMAIN Val(datfiles) : Called(dataSources', Val(datfiles)[i])
          /\ last'.outcome # "EngineError"]_vars

\* C4: once the caller's block has been left, normally or by an exception,
\* end() has been called by the scope and the engine environment is released.
C4_ScopeReleases ==
    scope \in {"exitedNormal", "exitedError"} =>
        /\ envEnded
        /\ last.op = (IF via = "with" THEN "__exit__" ELSE "finally")
        /\ Called(last.calls, "env.end")
        /\ IsNone(inputs) /\ IsNone(datfiles)

\* A create_opl_model block that generated its model and was left by an exception.
C4_Witness ==
    /\ scope = "exitedError"
    /\ via = "create_opl_model"
    /\ generated
    /\ envEnded

\* C5: set_input on a live session makes no engine call and leaves the engine's
\* data sources and generated flag alone; with a value the session then holds
\* that value under the name, one entry per name, every other name's entry as
\* before, and the data-file list is unchanged; without a value the name is
\* appended to the data-file list and the inputs are unchanged.
C5_SetInputFrame ==
    [][(last'.op = "set_input" /\ ~envEnded) =>
          /\ last'.calls = <<>>
          /\ generated' = generated /\ dataSources' = dataSources /\ genCalls' = genCalls
          /\ tables' = tables
          /\ IF Len(last'.arg) = 2
             THEN LET new == Val(inputs')
                      old == Val(inputs)
                  IN  /\ datfiles' = datfiles
                      /\ \E i \in DOMAIN new :
                            new[i] = [name |-> last'.arg[1], value |-> last'.arg[2]]
                      /\ \A i, j \in DOMAIN new : new[i].name = new[j].name => i = j
                      /\ {new[i] : i \in {j \in DOMAIN new : new[j].name # last'.arg[1]}}
                           = {old[i] : i \in {j \in DOMAIN old : old[j].name # last'.arg[1]}}
             ELSE /\ inputs' = inputs
                  /\ datfiles' = Some(Append(Val(datfiles), last'.arg[1]))]_vars

\* A registration that overwrote the value of the name registered first while
\* another name was registered too.
C5_Witness ==
    /\ last.op = "set_input"
    /\ last.outcome = "None"
    /\ Len(last.arg) = 2
    /\ Len(Val(inputs)) = 2
    /\ Val(inputs)[1] = [name |-> last.arg[1], value |-> last.arg[2]]

EndsWith(name, suffix) ==
    /\ Len(name) >= Len(suffix)
    /\ SubSeq(name, Len(name) - Len(suffix) + 1, Len(name)) = suffix

\* C6: export_model on a live session with a name whose extension is not one
\* of sav, lp, mps, cpo raises a usage error and makes no engine call; with an
\* allow-listed name on a model that generates it calls the export of the
\* backend the engine reports, and only that one.
C6_ExportAllowList ==
    (last.op = "export_model" /\ ~envEnded) =>
        IF ~\E e \in {".sav", ".lp", ".mps", ".cpo"} : EndsWith(last.arg[1], e)
        THEN last.outcome = "ValueError" /\ last.calls = <<>>
        ELSE generated =>
                /\ last.outcome = "None"
                /\ Called(last.calls, "getCP.exportModel") <=> usingCP
                /\ Called(last.calls, "getCplex.exportModel") <=> ~usingCP

\* C7: on a live session a filled statistics or quality cache is never
\* changed, and a read that finds it filled returns it and makes no engine
\* call; on a constraint-programming backend a read raises a usage error,
\* returns nothing and the cache stays empty.
C7_StatsCached ==
    [][~envEnded' =>
          /\ ~IsNone(cplex_stats) =>
                /\ cplex_stats' = cplex_stats
                /\ last'.op = "cplex_stats" =>
                      last'.outcome = "dict" /\ last'.arg = cplex_stats /\ last'.calls = <<>>
          /\ ~IsNone(cplex_quality) =>
                /\ cplex_quality' = cplex_quality
                /\ last'.op = "cplex_quality" =>
                      last'.outcome = "dict" /\ last'.arg = cplex_quality /\ last'.calls = <<>>
          /\ (usingCP /\ last'.op = "cplex_stats") =>
                last'.outcome = "ValueError" /\ IsNone(last'.arg) /\ IsNone(cplex_stats')
          /\ (usingCP /\ last'.op = "cplex_quality") =>
                last'.outcome = "ValueError" /\ IsNone(last'.arg) /\ IsNone(cplex_quality')]_vars

\* A read of cplex_stats answered from the cache, on a generated model.
C7_Witness ==
    /\ last.op = "cplex_stats"
    /\ last.outcome = "dict"
    /\ last.calls = <<>>
    /\ last.arg = cplex_stats
    /\ ~IsNone(cplex_quality)
    /\ generated
    /\ ~envEnded

Range(seq) == {seq[i] : i \in DOMAIN seq}

\* Column i of a registered value.
InputColumn(value, i) ==
    IF value.shape = "frame" THEN value.cols[i]
    ELSE [j \in DOMAIN value.rows |-> value.rows[j][i]]

\* The rule for a string column: a string unchanged, anything else as str() renders it.
StringRule(v) == PyString(IF v.k = "str" THEN v.s ELSE PyStr(v))

\* C8: whatever the shape of the registered value (list of rows or data frame
\* through the column fill, other iterables through the row commit), no scalar
\* of a string column makes the fill raise TypeError, and after generation the
\* string columns of the engine's set hold each scalar as the rule renders it.
C8_UniformCoercion ==
    Called(last.calls, "generate") =>
        LET e == Val(inputs)[1]
            types == EngineSchema(e.name).types
        IN  /\ last.printed # <<"TypeError">>
            /\ generated =>
                  \A i \in DOMAIN types :
                     types[i] = OPL_STRING =>
                        Range(Val(tables[e.name])[i])
                          = {StringRule(v) : v \in Range(InputColumn(e.value, i))}

\* C9: for a registered list of rows against a keyless schema (each row of the
\* schema's length, strings in the string columns), the fill raises nothing
\* during generation and get_table(name, as_pandas=False) returns the rows
\* registered, in order.
C9_RoundTrip ==
    LET e == Val(inputs)[1]
        types == EngineSchema(e.name).types
    IN  (/\ e.value.shape = "list"
         /\ ~EngineSchema(e.name).hasKey
         /\ \A j \in DOMAIN e.value.rows :
               /\ Len(e.value.rows[j]) = Len(types)
               /\ \A i \in DOMAIN types : types[i] = OPL_STRING => e.value.rows[j][i].k = "str")
        => /\ Called(last.calls, "generate") => last.printed \in {<<>>, <<"IloException">>}
           /\ (last.op = "get_table" /\ last.outcome = "rows" /\ last.arg = <<e.name>>)
                 => ret = e.value.rows

\* C10: once the environment is released, the registered inputs, the data-file
\* list, both statistics caches and the field cache are cleared and stay so.
C10_EndedAbsorbing ==
    envEnded =>
        /\ IsNone(inputs)
        /\ IsNone(datfiles)
        /\ IsNone(cplex_stats)
        /\ IsNone(cplex_quality)
        /\ IsNone(fieldDict)

\* C11: whenever create_opl_model has finished or raised -- the data argument
\* was rejected before the block, or the block was left normally or with an
\* error -- the environment it created has been released.
C11_CreateReleases ==
    (via = "create_opl_model" /\ scope \in {"setupRaised", "exitedNormal", "exitedError"})
        => envEnded

\* C12: over any sequence of operations, retries after a failed generation
\* included, the aggregate Python source and each registered data file are
\* attached to the engine model at most once: the model's data sources only
\* ever change from none attached.
C12_AttachOnce ==
    [][dataSources' # dataSources => dataSources = <<>>]_vars

====
